---------------------------- MODULE Spec2Model ----------------------------
(***************************************************************************)
(* AuditBot (src/app.py): PDF text extraction with OCR fallback, evidence  *)
(* synthesis through a hosted model, and the per-document report loop.     *)
(*                                                                         *)
(* Texts are TLA+ strings.  The NUL character "\x00" of the source is      *)
(* written NUL below (a one-character string that stands for it).          *)
(***************************************************************************)
EXTENDS Integers, Sequences, FiniteSets, TLC

VARIABLES
    \* ---- main(): the audit run
    pc,             \* position in main(): "start", "loop", "done", "aborted", "crashed"
                    \* ("off" while only _clean_text is exercised)
    api_key,        \* src/app.py:227 (None when neither the box nor the environment has it)
    threshold,      \* ocr_threshold_chars, src/app.py:240
    files,          \* the uploaded files, in upload order (their names)
    chosen_model,   \* src/app.py:296
    rows,           \* src/app.py:298
    idx,            \* number of loop iterations finished (enumerate index of the next file)
    last,           \* what the last loop iteration called and got (observation only)
    ui,             \* what the run showed: "", "credential_error", "AttributeError", "report"
    report,         \* the DataFrame of src/app.py:344-352 (empty until built)
    \* ---- _clean_text applied to a text, and to its own result
    text,
    cleaned,
    recleaned,
    cpc

mainvars  == <<pc, api_key, threshold, files, chosen_model, rows, idx, last, ui, report>>
cleanvars == <<text, cleaned, recleaned, cpc>>
vars      == <<pc, api_key, threshold, files, chosen_model, rows, idx, last, ui, report,
               text, cleaned, recleaned, cpc>>

(***************************************************************************)
(* Bounds                                                                  *)
(***************************************************************************)
\* longest text given to _clean_text
MaxLen == 6

\* most files uploaded in one run
MaxDocs == 2

\* largest ocr_threshold_chars (the widget allows 0..10000)
MaxThreshold == 2

\* by how much the long exception message exceeds the evidence limit
LongExtra == 3

(***************************************************************************)
(* Strings                                                                 *)
(***************************************************************************)
None == [none |-> TRUE]

NUL == "0"

\* the characters re.sub(r"[\t\r ]+", ...) collapses
Horizontal == {"\t", "\r", " "}

\* the characters str.strip() removes (those of them the model's alphabet has)
PyWhitespace == {" ", "\t", "\n", "\r", "\f"}

Ch(s, i) == SubSeq(s, i, i)

Min(a, b) == IF a < b THEN a ELSE b

\* s[:n]
Prefix(s, n) == SubSeq(s, 1, Min(Len(s), n))

RECURSIVE lstrip(_)
lstrip(s) ==
    IF s # "" /\ Ch(s, 1) \in PyWhitespace THEN lstrip(SubSeq(s, 2, Len(s))) ELSE s

RECURSIVE rstrip(_)
rstrip(s) ==
    IF s # "" /\ Ch(s, Len(s)) \in PyWhitespace THEN rstrip(SubSeq(s, 1, Len(s) - 1)) ELSE s

\* str.strip()
strip(s) == rstrip(lstrip(s))

\* text.replace("\x00", " ")
ReplaceNul(s) ==
    LET F[i \in 0..Len(s)] ==
            IF i = 0 THEN ""
            ELSE F[i-1] \o (IF Ch(s, i) = NUL THEN " " ELSE Ch(s, i))
    IN  F[Len(s)]

\* re.sub(r"[\t\r ]+", " ", text): every maximal run becomes one space
CollapseHorizontal(s) ==
    LET F[i \in 0..Len(s)] ==
            IF i = 0 THEN ""
            ELSE IF Ch(s, i) \notin Horizontal THEN F[i-1] \o Ch(s, i)
            ELSE IF i > 1 /\ Ch(s, i-1) \in Horizontal THEN F[i-1]
            ELSE F[i-1] \o " "
    IN  F[Len(s)]

\* re.sub(r"\n{3,}", "\n\n", text): a run of three or more newlines keeps two
CollapseNewlines(s) ==
    LET F[i \in 0..Len(s)] ==
            IF i = 0 THEN ""
            ELSE IF /\ Ch(s, i) = "\n"
                    /\ i > 2
                    /\ Ch(s, i-1) = "\n"
                    /\ Ch(s, i-2) = "\n" THEN F[i-1]
            ELSE F[i-1] \o Ch(s, i)
    IN  F[Len(s)]

\* a plausible slip: the NUL replacement done after the whitespace collapse
CleanNulLast(s) ==
    strip(ReplaceNul(CollapseNewlines(CollapseHorizontal(s))))

_clean_text(s) ==
    strip(CollapseNewlines(CollapseHorizontal(ReplaceNul(s))))

(***************************************************************************)
(* Exceptions and _safe_str                                                *)
(***************************************************************************)
EvidenceLimit == 4000

Exc(t, m) == [type |-> t, msg |-> m]

NoExc == Exc("", "")

RECURSIVE Repeat(_, _)
Repeat(c, n) ==
    IF n = 0 THEN ""
    ELSE LET h == Repeat(c, n \div 2)
         IN  IF n % 2 = 0 THEN h \o h ELSE h \o h \o c

\* a message longer than the evidence column keeps
LongMsg == Repeat("x", EvidenceLimit + LongExtra)

\* a plausible slip: the message is not cut
SafeStrUncut(exc) ==
    exc.type \o ": " \o exc.msg

_safe_str(exc) ==
    Prefix(exc.type \o ": " \o exc.msg, EvidenceLimit)

(***************************************************************************)
(* extract_pdf_text and ocr_pdf_text                                       *)
(*                                                                         *)
(* What the libraries do with one document is an input:                    *)
(*   d = [raised, exc, pages] PdfReader / page.extract_text() (None = "")  *)
(*   o = [raised, exc, parts] convert_from_bytes / image_to_string         *)
(***************************************************************************)
RECURSIVE Join(_, _)
Join(sep, parts) ==
    IF parts = << >> THEN ""
    ELSE IF Len(parts) = 1 THEN parts[1]
    ELSE parts[1] \o sep \o Join(sep, Tail(parts))

\* src/app.py:76-82: the non-empty stripped page texts, joined by a blank line
DirectText(pages) ==
    LET stripped == [k \in 1..Len(pages) |-> strip(pages[k])]
        kept     == SelectSeq(stripped, LAMBDA t : t # "")
    IN  strip(Join("\n\n", kept))

ocr_pdf_text(o) ==
    IF o.raised
    THEN [raised |-> TRUE, exc |-> o.exc, value |-> ""]
    ELSE [raised |-> FALSE, exc |-> NoExc, value |-> Join("\n", o.parts)]

ExtractResult(raised, exc, txt, used_ocr, extracted, direct_raised, ocr_called, ocr_raised, ocr_text) ==
    [raised |-> raised, exc |-> exc, text |-> txt, used_ocr |-> used_ocr,
     extracted |-> extracted, direct_raised |-> direct_raised,
     ocr_called |-> ocr_called, ocr_raised |-> ocr_raised, ocr_text |-> ocr_text]

\* a plausible slip: the try/except around the direct extraction is missing
ExtractPropagatesDirectError(d, o, T) ==
    LET extracted == IF d.raised THEN "" ELSE DirectText(d.pages)
        ocr       == ocr_pdf_text(o)
        ocr_text  == strip(ocr.value)
    IN  IF d.raised
        THEN ExtractResult(TRUE, d.exc, "", FALSE, "", TRUE, FALSE, FALSE, "")
        ELSE IF Len(extracted) >= T
        THEN ExtractResult(FALSE, NoExc, _clean_text(extracted), FALSE,
                           extracted, d.raised, FALSE, FALSE, "")
        ELSE IF ocr.raised
        THEN ExtractResult(TRUE, ocr.exc, "", FALSE, extracted, d.raised, TRUE, TRUE, "")
        ELSE IF ocr_text # ""
        THEN ExtractResult(FALSE, NoExc, _clean_text(ocr_text), TRUE,
                           extracted, d.raised, TRUE, FALSE, ocr_text)
        ELSE ExtractResult(FALSE, NoExc, _clean_text(extracted), TRUE,
                           extracted, d.raised, TRUE, FALSE, ocr_text)

\* a plausible slip: the direct text is accepted only when longer than the threshold
ExtractStrictlyLonger(d, o, T) ==
    LET extracted == IF d.raised THEN "" ELSE DirectText(d.pages)
        ocr       == ocr_pdf_text(o)
        ocr_text  == strip(ocr.value)
    IN  IF Len(extracted) > T
        THEN ExtractResult(FALSE, NoExc, _clean_text(extracted), FALSE,
                           extracted, d.raised, FALSE, FALSE, "")
        ELSE IF ocr.raised
        THEN ExtractResult(TRUE, ocr.exc, "", FALSE, extracted, d.raised, TRUE, TRUE, "")
        ELSE IF ocr_text # ""
        THEN ExtractResult(FALSE, NoExc, _clean_text(ocr_text), TRUE,
                           extracted, d.raised, TRUE, FALSE, ocr_text)
        ELSE ExtractResult(FALSE, NoExc, _clean_text(extracted), TRUE,
                           extracted, d.raised, TRUE, FALSE, ocr_text)

\* a plausible slip: an OCR error is swallowed like a direct-extraction error
ExtractSwallowsOcrError(d, o, T) ==
    LET extracted == IF d.raised THEN "" ELSE DirectText(d.pages)
        ocr       == ocr_pdf_text(o)
        ocr_text  == strip(ocr.value)
    IN  IF Len(extracted) >= T
        THEN ExtractResult(FALSE, NoExc, _clean_text(extracted), FALSE,
                           extracted, d.raised, FALSE, FALSE, "")
        ELSE IF ocr_text # ""
        THEN ExtractResult(FALSE, NoExc, _clean_text(ocr_text), TRUE,
                           extracted, d.raised, TRUE, ocr.raised, ocr_text)
        ELSE ExtractResult(FALSE, NoExc, _clean_text(extracted), TRUE,
                           extracted, d.raised, TRUE, ocr.raised, ocr_text)

\* The result carries, beside (text, used_ocr) or the exception raised, what the
\* call did: the direct text, whether direct extraction raised, whether OCR ran.
extract_pdf_text(d, o, T) ==
    LET extracted == IF d.raised THEN "" ELSE DirectText(d.pages)
        ocr       == ocr_pdf_text(o)
        ocr_text  == strip(ocr.value)
    IN  IF Len(extracted) >= T
        THEN ExtractResult(FALSE, NoExc, _clean_text(extracted), FALSE,
                           extracted, d.raised, FALSE, FALSE, "")
        ELSE IF ocr.raised
        THEN ExtractResult(TRUE, ocr.exc, "", FALSE, extracted, d.raised, TRUE, TRUE, "")
        ELSE IF ocr_text # ""
        THEN ExtractResult(FALSE, NoExc, _clean_text(ocr_text), TRUE,
                           extracted, d.raised, TRUE, FALSE, ocr_text)
        ELSE ExtractResult(FALSE, NoExc, _clean_text(extracted), TRUE,
                           extracted, d.raised, TRUE, FALSE, ocr_text)

(***************************************************************************)
(* ask_gemini                                                              *)
(*                                                                         *)
(* What the model service does with one prompt is an input g:              *)
(*   kind "setup_error"  genai.GenerativeModel(...) raises   (l. 144-148)  *)
(*   kind "call_error"   generate_content / resp.text raises (l. 161-164)  *)
(*   kind "response"     resp.text is g.text                               *)
(***************************************************************************)
AuditRow(filename, audit_finding, evidence) ==
    [filename |-> filename, audit_finding |-> audit_finding, evidence |-> evidence]

JsonObject(fields) == [raised |-> FALSE, exc |-> NoExc, kind |-> "object", fields |-> fields]

JsonArray == [raised |-> FALSE, exc |-> NoExc, kind |-> "array", fields |-> << >>]

JsonError ==
    [raised |-> TRUE, exc |-> Exc("JSONDecodeError", "Expecting value: line 1 column 1 (char 0)"),
     kind |-> "", fields |-> << >>]

\* the response texts of the model, each with what json.loads makes of it
JsonTable ==
    ("{\"audit_finding\": \"Met\", \"evidence\": \"Reviewed annually.\"}"
        :> JsonObject(("audit_finding" :> "Met") @@ ("evidence" :> "Reviewed annually.")))
    @@ ("{\"evidence\": \"Reviewed annually.\"}"
        :> JsonObject("evidence" :> "Reviewed annually."))
    @@ ("{\"audit_finding\": \"\", \"evidence\": \"Reviewed annually.\"}"
        :> JsonObject(("audit_finding" :> "") @@ ("evidence" :> "Reviewed annually.")))
    @@ ("{\"audit_finding\": \"Met\"}"
        :> JsonObject("audit_finding" :> "Met"))
    @@ ("[]" :> JsonArray)
    @@ ("Met" :> JsonError)

json_loads(t) == JsonTable[t]

\* parsed.get(key, default): only a dict has .get
dict_get(parsed, key, default) ==
    IF parsed.kind # "object"
    THEN [raised |-> TRUE, value |-> "",
          exc |-> Exc("AttributeError", "'list' object has no attribute 'get'")]
    ELSE [raised |-> FALSE, exc |-> NoExc,
          value |-> IF key \in DOMAIN parsed.fields THEN parsed.fields[key] ELSE default]

\* src/app.py:140-141
StripModelsPrefix(model_name) ==
    IF Len(model_name) >= 7 /\ SubSeq(model_name, 1, 7) = "models/"
    THEN SubSeq(model_name, 8, Len(model_name))
    ELSE model_name

AskResult(raised, exc, row) == [raised |-> raised, exc |-> exc, row |-> row]

AiError(e) == AskResult(FALSE, NoExc, AuditRow("", "AI PROCESSING ERROR", _safe_str(e)))

\* a plausible slip: the defaults of an earlier revision (raw text, empty evidence)
AskGeminiOtherDefaults(model_name, document_text, g) ==
    [request |-> [model |-> StripModelsPrefix(model_name), document_text |-> document_text],
     result |->
        IF g.kind = "setup_error" THEN AskResult(TRUE, g.exc, AuditRow("", "", ""))
        ELSE IF g.kind = "call_error" THEN AiError(g.exc)
        ELSE LET parsed   == json_loads(g.text)
                 finding  == dict_get(parsed, "audit_finding", g.text)
                 evidence == dict_get(parsed, "evidence", "")
             IN  IF parsed.raised THEN AiError(parsed.exc)
                 ELSE IF finding.raised THEN AiError(finding.exc)
                 ELSE IF evidence.raised THEN AiError(evidence.exc)
                 ELSE AskResult(FALSE, NoExc,
                                AuditRow("", IF finding.value = "" THEN g.text ELSE finding.value,
                                         evidence.value))]

\* request: the model name and document text the prompt is built from; result: the
\* row returned or the exception raised (set-up is outside the try, the call and
\* the parse inside it)
ask_gemini(model_name, document_text, g) ==
    [request |-> [model |-> StripModelsPrefix(model_name), document_text |-> document_text],
     result |->
        IF g.kind = "setup_error" THEN AskResult(TRUE, g.exc, AuditRow("", "", ""))
        ELSE IF g.kind = "call_error" THEN AiError(g.exc)
        ELSE LET parsed   == json_loads(g.text)
                 finding  == dict_get(parsed, "audit_finding", "Error parsing finding")
                 evidence == dict_get(parsed, "evidence", "EVIDENCE NOT FOUND")
             IN  IF parsed.raised THEN AiError(parsed.exc)
                 ELSE IF finding.raised THEN AiError(finding.exc)
                 ELSE IF evidence.raised THEN AiError(evidence.exc)
                 ELSE AskResult(FALSE, NoExc, AuditRow("", finding.value, evidence.value))]

(***************************************************************************)
(* choose_model                                                            *)
(***************************************************************************)
AutoChoice == "Auto (list models)"

FallbackModel == "gemini-1.5-flash"

RECURSIVE FirstGenerating(_)
FirstGenerating(models) ==
    IF models = << >> THEN FallbackModel
    ELSE IF "generateContent" \in Head(models).methods THEN Head(models).name
    ELSE FirstGenerating(Tail(models))

\* listing = [raised, models]: what genai.list_models() does
choose_model(preferred, listing) ==
    IF preferred # AutoChoice THEN preferred
    ELSE IF listing.raised THEN FallbackModel
    ELSE FirstGenerating(listing.models)

(***************************************************************************)
(* main(): inputs                                                          *)
(***************************************************************************)
Some(v) == [some |-> v]

\* src/app.py:227: api_key = user_key if user_key else secret_key
PickKey(user_key, secret_key) ==
    IF user_key # "" THEN Some(user_key) ELSE secret_key

UserKeys == {"", " ", "user-key"}

\* os.getenv("GEMINI_API_KEY"): None when the variable is not set
SecretKeys == {None, Some(""), Some("env-key")}

ModelChoices == {"gemini-1.5-flash", "gemini-pro", AutoChoice}

Listings ==
    { [raised |-> TRUE, models |-> << >>],
      [raised |-> FALSE, models |-> << >>],
      [raised |-> FALSE,
       models |-> << [name |-> "models/embedding-001", methods |-> {"embedContent"}],
                     [name |-> "models/gemini-1.5-pro", methods |-> {"generateContent"}] >>] }

Digits == <<"1", "2", "3", "4", "5", "6", "7", "8", "9">>

DocName(k) == "d" \o Digits[k] \o ".pdf"

FileLists == {[k \in 1..n |-> DocName(k)] : n \in 1..MaxDocs}

ReadOutcomes ==
    { [raised |-> FALSE, exc |-> NoExc],
      [raised |-> TRUE, exc |-> Exc("OSError", "cannot read the upload")] }

DirectOutcomes ==
    { [raised |-> TRUE, pages |-> << >>, exc |-> Exc("PdfReadError", "EOF marker not found")] }
    \cup { [raised |-> FALSE, exc |-> NoExc, pages |-> p] :
             p \in { << >>, <<NUL>>, <<"a">>, <<" ab ">>, <<NUL \o "a">>, <<"abc">>,
                     <<"a", " ", "b">> } }

OcrOutcomes ==
    { [raised |-> TRUE, parts |-> << >>,
       exc |-> Exc("PDFInfoNotInstalledError", "Unable to get page count. Is poppler installed and in PATH?")],
      [raised |-> TRUE, parts |-> << >>, exc |-> Exc("TesseractError", LongMsg)] }
    \cup { [raised |-> FALSE, exc |-> NoExc, parts |-> p] :
             p \in { << >>, <<" ", "">>, <<"Policy requires annual review.", "">> } }

GeminiOutcomes ==
    { [kind |-> "setup_error", text |-> "", exc |-> Exc("TypeError",
                 "GenerativeModel.__init__() got an unexpected keyword argument 'system_instruction'")],
      [kind |-> "call_error", text |-> "", exc |-> Exc("ResourceExhausted", "429 quota exceeded")],
      [kind |-> "call_error", text |-> "", exc |-> Exc("InternalServerError", LongMsg)] }
    \cup { [kind |-> "response", text |-> t, exc |-> NoExc] : t \in DOMAIN JsonTable }

(***************************************************************************)
(* main(): one iteration of the loop over the files (src/app.py:301-340)   *)
(***************************************************************************)
NoTextError ==
    Exc("RuntimeError",
        "No text could be extracted from the PDF (selectable text + OCR both returned empty).")

NoExtract == ExtractResult(FALSE, NoExc, "", FALSE, "", FALSE, FALSE, FALSE, "")

NoObs ==
    [name |-> "", read_raised |-> FALSE, extract_called |-> FALSE, ext |-> NoExtract,
     gemini_called |-> FALSE, request |-> [model |-> "", document_text |-> ""],
     g |-> [kind |-> "", text |-> "", exc |-> NoExc], ask_raised |-> FALSE,
     caught |-> FALSE, exc |-> NoExc]

\* a plausible slip: the empty-text check is missing
LoopBodyWithoutEmptyCheck(name, rd, d, o, g, T, model) ==
    LET ext == extract_pdf_text(d, o, T)
        ask == ask_gemini(model, ext.text, g)
        o0  == [NoObs EXCEPT !.name = name]
        o1  == [o0 EXCEPT !.extract_called = TRUE, !.ext = ext]
        o2  == [o1 EXCEPT !.gemini_called = TRUE, !.request = ask.request, !.g = g,
                          !.ask_raised = ask.result.raised]
        Caught(e, obs) ==
            [row |-> AuditRow(name, "ERROR", _safe_str(e)),
             obs |-> [obs EXCEPT !.caught = TRUE, !.exc = e]]
    IN  IF rd.raised THEN Caught(rd.exc, [o0 EXCEPT !.read_raised = TRUE])
        ELSE IF ext.raised THEN Caught(ext.exc, o1)
        ELSE IF ask.result.raised THEN Caught(ask.result.exc, o2)
        ELSE [row |-> [ask.result.row EXCEPT !.filename = name], obs |-> o2]

\* row: the row appended for the file; obs: what the iteration called and got
LoopBody(name, rd, d, o, g, T, model) ==
    LET ext == extract_pdf_text(d, o, T)
        ask == ask_gemini(model, ext.text, g)
        o0  == [NoObs EXCEPT !.name = name]
        o1  == [o0 EXCEPT !.extract_called = TRUE, !.ext = ext]
        o2  == [o1 EXCEPT !.gemini_called = TRUE, !.request = ask.request, !.g = g,
                          !.ask_raised = ask.result.raised]
        Caught(e, obs) ==
            [row |-> AuditRow(name, "ERROR", _safe_str(e)),
             obs |-> [obs EXCEPT !.caught = TRUE, !.exc = e]]
    IN  IF rd.raised THEN Caught(rd.exc, [o0 EXCEPT !.read_raised = TRUE])
        ELSE IF ext.raised THEN Caught(ext.exc, o1)
        ELSE IF ext.text = "" THEN Caught(NoTextError, o1)
        ELSE IF ask.result.raised THEN Caught(ask.result.exc, o2)
        ELSE [row |-> [ask.result.row EXCEPT !.filename = name], obs |-> o2]

(***************************************************************************)
(* main(): the run                                                         *)
(***************************************************************************)
CleanIdle ==
    /\ text = ""
    /\ cleaned = ""
    /\ recleaned = ""
    /\ cpc = "off"

Init ==
    /\ pc = "start"
    /\ api_key \in {PickKey(u, k) : u \in UserKeys, k \in SecretKeys}
    /\ threshold \in 0..MaxThreshold
    /\ files \in FileLists
    /\ chosen_model = ""
    /\ rows = << >>
    /\ idx = 0
    /\ last = NoObs
    /\ ui = ""
    /\ report = << >>
    /\ CleanIdle

\* "Run Audit" pressed: the credential check and choose_model (src/app.py:292-299)
RunAudit ==
    /\ pc = "start"
    /\ IF api_key = None
       THEN \* None.strip() raises AttributeError: main() ends with the traceback
            /\ pc' = "crashed"
            /\ ui' = "AttributeError"
            /\ UNCHANGED chosen_model
       ELSE IF strip(api_key.some) = ""
       THEN /\ pc' = "aborted"
            /\ ui' = "credential_error"
            /\ UNCHANGED chosen_model
       ELSE \E preferred \in ModelChoices, listing \in Listings :
                /\ chosen_model' = choose_model(preferred, listing)
                /\ pc' = "loop"
                /\ ui' = ""
    /\ rows' = << >>
    /\ UNCHANGED <<api_key, threshold, files, idx, last, report>>
    /\ UNCHANGED cleanvars

\* Every way one iteration can go for a file: the libraries' and the service's
\* answers range over the outcome sets above.
Iterations(name, T, model) ==
    { LoopBody(name, rd, d, o, g, T, model) :
        rd \in ReadOutcomes, d \in DirectOutcomes, o \in OcrOutcomes, g \in GeminiOutcomes }

IterationsOf ==
    [name \in {DocName(k) : k \in 1..MaxDocs}, T \in 0..MaxThreshold,
     model \in {choose_model(p, l) : p \in ModelChoices, l \in Listings}
        |-> Iterations(name, T, model)]

\* a plausible slip: a failed document leaves no row
CollectSkipsFailed(rs, it) ==
    IF it.obs.caught THEN rs ELSE Append(rs, it.row)

\* rows.append(...) of either branch (src/app.py:331 and 334)
Collect(rs, it) ==
    Append(rs, it.row)

ProcessDocument ==
    /\ pc = "loop"
    /\ idx < Len(files)
    /\ \E it \in IterationsOf[files[idx + 1], threshold, chosen_model] :
        /\ rows' = Collect(rows, it)
        /\ last' = it.obs
    /\ idx' = idx + 1
    /\ UNCHANGED <<pc, api_key, threshold, files, chosen_model, ui, report>>
    /\ UNCHANGED cleanvars

\* src/app.py:344-352: the DataFrame of the rows, columns renamed
DataFrame(rs) ==
    [k \in 1..Len(rs) |->
        [Filename |-> rs[k].filename, Audit_Finding |-> rs[k].audit_finding,
         Evidence |-> rs[k].evidence]]

ShowReport ==
    /\ pc = "loop"
    /\ idx = Len(files)
    /\ report' = DataFrame(rows)
    /\ ui' = "report"
    /\ pc' = "done"
    /\ UNCHANGED <<api_key, threshold, files, chosen_model, rows, idx, last>>
    /\ UNCHANGED cleanvars

Next == RunAudit \/ ProcessDocument \/ ShowReport

Spec == Init /\ [][Next]_vars

(***************************************************************************)
(* Properties of the run                                                   *)
(***************************************************************************)
\* the row of the file the last iteration processed
LastRow == rows[idx]

InLoop == pc \in {"loop", "done"} /\ idx >= 1

\* C1: the rows are the rows of the files processed so far, one per file and in
\* upload order, whatever failed; the finished report has one row per file, row i
\* for file i.
C1_OneRowPerFileInOrder ==
    /\ Len(rows) = idx
    /\ idx <= Len(files)
    /\ \A k \in 1..Len(rows) : rows[k].filename = files[k]
    /\ pc = "done" =>
         /\ idx = Len(files)
         /\ Len(report) = Len(files)
         /\ \A k \in 1..Len(files) : report[k].Filename = files[k]

\* a finished two-file report whose first file failed and whose second succeeded
C1_Witness ==
    /\ pc = "done"
    /\ Len(files) = 2
    /\ report[1].Filename = files[1] /\ report[1].Audit_Finding = "ERROR"
    /\ report[2].Filename = files[2] /\ report[2].Audit_Finding = "Met"

\* the exception one iteration raised inside the try, from what it called and got
RaisedInTry(obs) ==
    \/ obs.read_raised
    \/ obs.extract_called /\ obs.ext.raised
    \/ obs.extract_called /\ ~obs.ext.raised /\ obs.ext.text = ""
    \/ obs.gemini_called /\ obs.ask_raised

\* C2: an exception raised while one file is processed becomes that file's row,
\* finding "ERROR", evidence "ExceptionType: message" cut to 4000 characters; the
\* loop goes on with the next file.
C2_FailureBecomesErrorRow ==
    InLoop /\ RaisedInTry(last) =>
        /\ last.caught
        /\ LastRow.filename = files[idx]
        /\ LastRow.audit_finding = "ERROR"
        /\ LastRow.evidence = Prefix(last.exc.type \o ": " \o last.exc.msg, EvidenceLimit)
        /\ Len(LastRow.evidence) <= EvidenceLimit
        /\ pc = "loop" /\ idx < Len(files) => ENABLED ProcessDocument
        /\ pc = "loop" /\ idx = Len(files) => ENABLED ShowReport

\* the first of two files failed with a message longer than 4000 characters, and
\* the second file has been processed after it
C2_Witness ==
    /\ pc = "loop"
    /\ idx = 2
    /\ rows[1].audit_finding = "ERROR"
    /\ Len(rows[1].evidence) = EvidenceLimit
    /\ rows[2].audit_finding = "Met"

KeyMissing == api_key = None \/ strip(api_key.some) = ""

\* C3: a missing key (absent or blank) stops the run with the credential error
\* before any file is processed, and nothing else stops a run.
C3_OnlyMissingKeyStopsTheRun ==
    pc # "start" =>
        IF KeyMissing
        THEN pc = "aborted" /\ ui = "credential_error" /\ rows = << >> /\ last = NoObs
        ELSE pc \in {"loop", "done"}

\* the service failed: set-up, call, invalid JSON, or JSON that is no object
SynthesisFailed(g) ==
    \/ g.kind \in {"setup_error", "call_error"}
    \/ g.kind = "response" /\ (json_loads(g.text).raised \/ json_loads(g.text).kind # "object")

\* C4: ask_gemini never raises: every failure of the synthesis gives the row
\* "AI PROCESSING ERROR" with a non-empty evidence of at most 4000 characters.
C4_AskGeminiNeverRaises ==
    InLoop /\ last.gemini_called /\ SynthesisFailed(last.g) =>
        /\ ~last.ask_raised
        /\ LastRow.audit_finding = "AI PROCESSING ERROR"
        /\ LastRow.evidence # ""
        /\ Len(LastRow.evidence) <= EvidenceLimit

\* C5: when direct extraction and OCR both give the empty string, extract_pdf_text
\* returns the empty text and the file's row is "ERROR"; ask_gemini is never called
\* with an empty document text.
C5_EmptyTextIsAnErrorRow ==
    InLoop =>
        /\ last.gemini_called => last.request.document_text # ""
        /\ /\ last.extract_called
           /\ last.ext.extracted = ""
           /\ last.ext.ocr_called /\ ~last.ext.ocr_raised /\ last.ext.ocr_text = ""
           => /\ ~last.ext.raised /\ last.ext.text = ""
              /\ ~last.gemini_called
              /\ LastRow.audit_finding = "ERROR"
              /\ LastRow.evidence = Prefix("RuntimeError: " \o NoTextError.msg, EvidenceLimit)

\* two files: the first answered "Met", the second without any text from either
\* path; the report has two rows and the second is "ERROR"
C5_Witness ==
    /\ pc = "done"
    /\ Len(files) = 2
    /\ Len(report) = 2
    /\ report[1].Audit_Finding = "Met"
    /\ last.ext.extracted = "" /\ last.ext.ocr_called /\ last.ext.ocr_text = ""
    /\ ~last.ext.ocr_raised
    /\ ~last.gemini_called
    /\ report[2].Audit_Finding = "ERROR"

\* C6 as stated: the direct text is accepted, without OCR, exactly when its
\* normalized length is at least the threshold, and an accepted text has at least
\* threshold characters.
C6_AcceptedByNormalizedLength ==
    InLoop /\ last.extract_called =>
        /\ last.ext.ocr_called <=> Len(_clean_text(last.ext.extracted)) < threshold
        /\ ~last.ext.raised /\ ~last.ext.used_ocr => Len(last.ext.text) >= threshold

\* C6 amended: the direct text is accepted, without OCR, exactly when the length
\* of the direct text as extracted (stripped, not yet normalized) is at least the
\* threshold; the text returned with used_ocr = false is its normalization.
C6_AcceptedByExtractedLength ==
    InLoop /\ last.extract_called =>
        /\ last.ext.ocr_called <=> Len(last.ext.extracted) < threshold
        /\ ~last.ext.ocr_called =>
             /\ ~last.ext.raised
             /\ ~last.ext.used_ocr
             /\ last.ext.text = _clean_text(last.ext.extracted)
        /\ last.ext.ocr_called /\ ~last.ext.raised => last.ext.used_ocr

\* a direct text of exactly threshold characters, accepted without OCR, whose
\* normalization is shorter than the threshold
C6_Witness ==
    /\ InLoop
    /\ last.extract_called
    /\ threshold = 2
    /\ last.ext.extracted = NUL \o "a"
    /\ ~last.ext.ocr_called
    /\ ~last.ext.used_ocr
    /\ last.ext.text = "a"

ParsedObject(g) ==
    g.kind = "response" /\ ~json_loads(g.text).raised /\ json_loads(g.text).kind = "object"

\* C9 as stated: of a JSON object, a missing or empty audit_finding becomes the raw
\* response text and a missing evidence the empty string.
C9_DefaultsRawTextAndEmpty ==
    InLoop /\ last.gemini_called /\ ParsedObject(last.g) =>
        LET fields == json_loads(last.g.text).fields
        IN  /\ LastRow.audit_finding =
                 IF "audit_finding" \in DOMAIN fields /\ fields["audit_finding"] # ""
                 THEN fields["audit_finding"] ELSE last.g.text
            /\ LastRow.evidence =
                 IF "evidence" \in DOMAIN fields THEN fields["evidence"] ELSE ""

\* C9 amended: of a JSON object, ask_gemini takes audit_finding and evidence as they
\* are (an empty audit_finding stays empty); a missing audit_finding becomes
\* "Error parsing finding" and a missing evidence "EVIDENCE NOT FOUND".
C9_DefaultsFixedTexts ==
    InLoop /\ last.gemini_called /\ ParsedObject(last.g) =>
        LET fields == json_loads(last.g.text).fields
        IN  /\ ~last.ask_raised
            /\ LastRow.audit_finding =
                 IF "audit_finding" \in DOMAIN fields
                 THEN fields["audit_finding"] ELSE "Error parsing finding"
            /\ LastRow.evidence =
                 IF "evidence" \in DOMAIN fields
                 THEN fields["evidence"] ELSE "EVIDENCE NOT FOUND"

\* an object without audit_finding has been answered
C9_Witness ==
    /\ InLoop
    /\ last.gemini_called
    /\ ParsedObject(last.g)
    /\ "audit_finding" \notin DOMAIN json_loads(last.g.text).fields
    /\ LastRow.audit_finding = "Error parsing finding"
    /\ LastRow.evidence = "Reviewed annually."

\* C10: when the direct text is shorter than the threshold and OCR raises,
\* extract_pdf_text raises too: the direct text is dropped, ask_gemini is not
\* called and the row is "ERROR"; an OCR run that returns the empty text gives the
\* normalized direct text.
C10_OcrFailurePropagates ==
    InLoop /\ last.extract_called /\ Len(last.ext.extracted) < threshold =>
        /\ last.ext.ocr_called
        /\ last.ext.ocr_raised =>
             /\ last.ext.raised
             /\ ~last.gemini_called
             /\ LastRow.audit_finding = "ERROR"
             /\ LastRow.evidence = Prefix(last.exc.type \o ": " \o last.exc.msg, EvidenceLimit)
             /\ last.exc.type \in {"PDFInfoNotInstalledError", "TesseractError"}
        /\ ~last.ext.ocr_raised /\ last.ext.ocr_text = "" =>
             /\ ~last.ext.raised
             /\ last.ext.used_ocr
             /\ last.ext.text = _clean_text(last.ext.extracted)

\* a non-empty direct text, shorter than the threshold, lost to an OCR error
C10_Witness ==
    /\ InLoop
    /\ last.extract_called
    /\ last.ext.extracted = "a"
    /\ threshold = 2
    /\ last.ext.ocr_raised
    /\ last.ext.raised
    /\ LastRow.audit_finding = "ERROR"

(***************************************************************************)
(* _clean_text on every text of up to MaxLen characters                    *)
(***************************************************************************)
Alphabet == {NUL, "\t", "\r", " ", "\n", "\f", "a"}

RECURSIVE TextsOfLen(_)
TextsOfLen(n) ==
    IF n = 0 THEN {""}
    ELSE {t \o c : t \in TextsOfLen(n-1), c \in Alphabet}

MainIdle ==
    /\ pc = "off"
    /\ api_key = None
    /\ threshold = 0
    /\ files = << >>
    /\ chosen_model = ""
    /\ rows = << >>
    /\ idx = 0
    /\ last = NoObs
    /\ ui = ""
    /\ report = << >>

InitClean ==
    /\ MainIdle
    /\ \E n \in 0..MaxLen : text \in TextsOfLen(n)
    /\ cleaned = ""
    /\ recleaned = ""
    /\ cpc = "input"

CleanOnce ==
    /\ cpc = "input"
    /\ cleaned' = _clean_text(text)
    /\ cpc' = "once"
    /\ UNCHANGED <<text, recleaned>>
    /\ UNCHANGED mainvars

CleanTwice ==
    /\ cpc = "once"
    /\ recleaned' = _clean_text(cleaned)
    /\ cpc' = "twice"
    /\ UNCHANGED <<text, cleaned>>
    /\ UNCHANGED mainvars

NextClean == CleanOnce \/ CleanTwice

SpecClean == InitClean /\ [][NextClean]_vars

\* C8: _clean_text is idempotent: cleaning an already cleaned text returns it unchanged.
C8_CleanIdempotent ==
    cpc = "twice" => recleaned = cleaned

\* a text where every rule of _clean_text acts (NUL, a run of blanks, outer whitespace)
\* has been cleaned twice
C8_Witness ==
    /\ cpc = "twice"
    /\ text = "\ta" \o NUL \o " \n"
    /\ cleaned = "a"
    /\ recleaned = "a"

=============================================================================
